---- MODULE Spec2Model ----
(***************************************************************************)
(* Model of the input-event normalisation layer (LexicalEvents): the       *)
(* listener table, attach/detach of a root element, the editable gate,     *)
(* the key-down and beforeinput translation tables, the composition state  *)
(* and the document selection-change arbitration between nested editors.   *)
(*                                                                         *)
(* The editing engine is an external collaborator.  What the handlers ask  *)
(* of it is modelled at the boundary: editor.update opens a scope that     *)
(* runs synchronously, $setCompositionKey writes the editor's composition  *)
(* key at once, execCommand hands a command to the engine.  Every effect   *)
(* of one step is appended, in program order, to the step's effect trace.  *)
(***************************************************************************)
EXTENDS Naturals, Integers, Sequences, FiniteSets, TLC

\* ------------------------------------------------------------------ bounds
\* How many times addRootElementEvents may be called on one root element
\* before a removeRootElementEvents.
MaxAttach == 2
\* How many deferred composition-end callbacks may be pending at once.
MaxTimers == 2
\* How many key predicates one key-down may satisfy at once.
MaxMatch == 2

\* ----------------------------------------------------------- the editors
\* Two root editors; A is nested in R1, B is nested in A, C is nested in R2.
Editors == {"R1", "A", "B", "R2", "C"}

\* editor._parentEditor ("null" for a root editor)
parentEditor(e) ==
  CASE e = "A" -> "R1"
    [] e = "B" -> "A"
    [] e = "C" -> "R2"
    [] OTHER   -> "null"

\* editor._key: unique per editor
editorKey(e) == e

\* The root element the host renders for editor e carries e's name.  The
\* element of a nested editor lies inside the element of its parent editor.
Surfaces == Editors
parentNode(s) == parentEditor(s)

\* getEditorsToPropagate: the editor, its parent, ..., its root.
RECURSIVE getEditorsToPropagate(_)
getEditorsToPropagate(e) ==
  IF e = "null" THEN <<>> ELSE <<e>> \o getEditorsToPropagate(parentEditor(e))

Last(seq) == seq[Len(seq)]

VARIABLES
  IS_FIREFOX,             \* shared/environment, fixed for a run
  CAN_USE_BEFORE_INPUT,   \* shared/environment, fixed for a run
  contentEditable,        \* [Surfaces -> {"true","false"}]
  lexicalEditor,          \* rootElement.__lexicalEditor: "undefined", "null" or an editor
  lexicalEventHandles,    \* rootElement._lexicalEventHandles: [defined, list]
  listeners,              \* the listeners registered on each root element, in order
  doc,                    \* the owner document: [lexicalEvent, listeners]
  rootElement,            \* editor.getRootElement(): "null" or a surface
  compositionKey,         \* editor._compositionKey: "null" or a node key
  selection,              \* the editor's selection: "null" or "range"
  lastKeyWasMaybeAndroidSoftKey,
  activeNestedEditorsMap, \* [root key -> editor or "undefined" (no entry)]
  timers,                 \* pending setTimeout(..., 0) callbacks, in order
  life,                   \* per surface: what the host did to it so far
  obs                     \* the last step: the operation, its input, its effects

vars == <<IS_FIREFOX, CAN_USE_BEFORE_INPUT, contentEditable, lexicalEditor,
          lexicalEventHandles, listeners, doc, rootElement, compositionKey,
          selection, lastKeyWasMaybeAndroidSoftKey, activeNestedEditorsMap,
          timers, life, obs>>

platformVars == <<IS_FIREFOX, CAN_USE_BEFORE_INPUT>>

\* ------------------------------------------------------- the effect trace
\* One effect of a step: kind, editor, name, payload (all strings).
Eff(k, e, n, p) == [kind |-> k, ed |-> e, name |-> n, payload |-> p]

IsCommand(x) == x.kind = "execCommand"
Commands(trace) == SelectSeq(trace, IsCommand)
IsPreventDefault(x) == x.kind = "preventDefault"
PreventDefaults(trace) == SelectSeq(trace, IsPreventDefault)
IsUpdate(x) == x.kind = "update"
Updates(trace) == SelectSeq(trace, IsUpdate)
IsSetCompositionKey(x) == x.kind = "setCompositionKey"

\* The part of the state a listener can change, threaded through the
\* listeners one event runs: ck (composition keys), flag (the soft-key
\* flag), timers, trace.
Machine(ck, flag, tm, trace) ==
  [ck |-> ck, flag |-> flag, timers |-> tm, trace |-> trace]

Emit(m, x) == [m EXCEPT !.trace = Append(@, x)]

\* editor.execCommand(name, payload)
execCommand(m, ed, name, payload) == Emit(m, Eff("execCommand", ed, name, payload))

\* event.preventDefault()
preventDefault(m, ed) == Emit(m, Eff("preventDefault", ed, "", ""))

\* editor.update(fn): the scope opens
update(m, ed) == Emit(m, Eff("update", ed, "", ""))

\* $setCompositionKey(key); the effect names the new and the previous key
setCompositionKey(m, ed, key) ==
  Emit([m EXCEPT !.ck[ed] = key], Eff("setCompositionKey", ed, key, m.ck[ed]))

\* editor.isComposing()
isComposing(m, ed) == m.ck[ed] # "null"


\* ------------------------------------------------------ the listener table
PASS_THROUGH_COMMAND == "PASS_THROUGH_COMMAND"

\* rootElementEvents, with the platform-conditional last entry.
rootElementEvents ==
  << <<"keydown", "onKeyDown">>,
     <<"compositionstart", "onCompositionStart">>,
     <<"compositionend", "onCompositionEnd">>,
     <<"input", "onInput">>,
     <<"click", "onClick">>,
     <<"cut", PASS_THROUGH_COMMAND>>,
     <<"copy", PASS_THROUGH_COMMAND>>,
     <<"dragstart", PASS_THROUGH_COMMAND>>,
     <<"paste", PASS_THROUGH_COMMAND>>,
     <<"focus", PASS_THROUGH_COMMAND>>,
     <<"blur", PASS_THROUGH_COMMAND>> >>
  \o (IF CAN_USE_BEFORE_INPUT
        THEN << <<"beforeinput", "onBeforeInput">> >>
        ELSE << <<"drop", PASS_THROUGH_COMMAND>> >>)

\* ------------------------------------------------------------ the nodes
\* The document nodes a selection point can name: the root, a paragraph
\* element, a plain text node, a token/inert text node.
Nodes == {"root", "p", "t", "k"}
isElementNode(n) == n \in {"root", "p"}
isRootNode(n) == n = "root"
isTokenOrInert(n) == n = "k"
\* anchor.type
pointType(n) == IF isElementNode(n) THEN "element" ELSE "text"

\* ----------------------------------------------------------- onKeyDown
\* The key predicates of LexicalUtils, in the order onKeyDown asks them.
\* A key-down event carries the set of predicates its (keyCode, ctrlKey,
\* shiftKey, altKey, metaKey) satisfies.
KeyPredicates ==
  << "isMoveForward", "isMoveBackward", "isMoveUp", "isMoveDown",
     "isLineBreak", "isOpenLineBreak", "isParagraph", "isDeleteBackward",
     "isEscape", "isDeleteForward", "isDeleteWordBackward",
     "isDeleteWordForward", "isDeleteLineBackward", "isDeleteLineForward",
     "isBold", "isUnderline", "isItalic", "isTab", "isUndo", "isRedo" >>

\* updateAndroidSoftKeyFlagIfAny skipped while the target's editor composes.
updateAndroidSoftKeyFlagWhenIdle(m, ev) ==
  IF m.ck[ev.target] # "null"
    THEN m
    ELSE [m EXCEPT !.flag = (ev.key = "Unidentified" /\ ev.keyCode = 229)]

updateAndroidSoftKeyFlagIfAny(m, ev) ==
  [m EXCEPT !.flag = (ev.key = "Unidentified" /\ ev.keyCode = 229)]

\* The translation chain of onKeyDown with two branches exchanged.
onKeyDownBoldAfterUnderline(m, ev, ed) ==
  LET m1 == updateAndroidSoftKeyFlagIfAny(m, ev)
      is(p) == p \in ev.matches
  IN
  IF isComposing(m1, ed) THEN m1
  ELSE IF is("isMoveForward") THEN execCommand(m1, ed, "keyArrowRight", "event")
  ELSE IF is("isMoveBackward") THEN execCommand(m1, ed, "keyArrowLeft", "event")
  ELSE IF is("isMoveUp") THEN execCommand(m1, ed, "keyArrowUp", "event")
  ELSE IF is("isMoveDown") THEN execCommand(m1, ed, "keyArrowDown", "event")
  ELSE IF is("isLineBreak") THEN execCommand(m1, ed, "keyEnter", "event")
  ELSE IF is("isOpenLineBreak")
    THEN execCommand(preventDefault(m1, ed), ed, "insertLineBreak", "true")
  ELSE IF is("isParagraph") THEN execCommand(m1, ed, "keyEnter", "event")
  ELSE IF is("isDeleteBackward")
    THEN IF ev.isBackspace
           THEN execCommand(m1, ed, "keyBackspace", "event")
           ELSE execCommand(m1, ed, "deleteCharacter", "true")
  ELSE IF is("isEscape") THEN execCommand(m1, ed, "keyEscape", "event")
  ELSE IF is("isDeleteForward")
    THEN IF ev.isDelete
           THEN execCommand(m1, ed, "keyDelete", "event")
           ELSE execCommand(preventDefault(m1, ed), ed, "deleteCharacter", "false")
  ELSE IF is("isDeleteWordBackward")
    THEN execCommand(preventDefault(m1, ed), ed, "deleteWord", "true")
  ELSE IF is("isDeleteWordForward")
    THEN execCommand(preventDefault(m1, ed), ed, "deleteWord", "false")
  ELSE IF is("isDeleteLineBackward")
    THEN execCommand(preventDefault(m1, ed), ed, "deleteLine", "true")
  ELSE IF is("isDeleteLineForward")
    THEN execCommand(preventDefault(m1, ed), ed, "deleteLine", "false")
  ELSE IF is("isUnderline")
    THEN execCommand(preventDefault(m1, ed), ed, "formatText", "underline")
  ELSE IF is("isBold")
    THEN execCommand(preventDefault(m1, ed), ed, "formatText", "bold")
  ELSE IF is("isItalic")
    THEN execCommand(preventDefault(m1, ed), ed, "formatText", "italic")
  ELSE IF is("isTab") THEN execCommand(m1, ed, "keyTab", "event")
  ELSE IF is("isUndo") THEN execCommand(preventDefault(m1, ed), ed, "undo", "")
  ELSE IF is("isRedo") THEN execCommand(preventDefault(m1, ed), ed, "redo", "")
  ELSE m1

onKeyDown(m, ev, ed) ==
  LET m1 == updateAndroidSoftKeyFlagIfAny(m, ev)
      is(p) == p \in ev.matches
  IN
  IF isComposing(m1, ed) THEN m1
  ELSE IF is("isMoveForward") THEN execCommand(m1, ed, "keyArrowRight", "event")
  ELSE IF is("isMoveBackward") THEN execCommand(m1, ed, "keyArrowLeft", "event")
  ELSE IF is("isMoveUp") THEN execCommand(m1, ed, "keyArrowUp", "event")
  ELSE IF is("isMoveDown") THEN execCommand(m1, ed, "keyArrowDown", "event")
  ELSE IF is("isLineBreak") THEN execCommand(m1, ed, "keyEnter", "event")
  ELSE IF is("isOpenLineBreak")
    THEN execCommand(preventDefault(m1, ed), ed, "insertLineBreak", "true")
  ELSE IF is("isParagraph") THEN execCommand(m1, ed, "keyEnter", "event")
  ELSE IF is("isDeleteBackward")
    THEN IF ev.isBackspace
           THEN execCommand(m1, ed, "keyBackspace", "event")
           ELSE execCommand(m1, ed, "deleteCharacter", "true")
  ELSE IF is("isEscape") THEN execCommand(m1, ed, "keyEscape", "event")
  ELSE IF is("isDeleteForward")
    THEN IF ev.isDelete
           THEN execCommand(m1, ed, "keyDelete", "event")
           ELSE execCommand(preventDefault(m1, ed), ed, "deleteCharacter", "false")
  ELSE IF is("isDeleteWordBackward")
    THEN execCommand(preventDefault(m1, ed), ed, "deleteWord", "true")
  ELSE IF is("isDeleteWordForward")
    THEN execCommand(preventDefault(m1, ed), ed, "deleteWord", "false")
  ELSE IF is("isDeleteLineBackward")
    THEN execCommand(preventDefault(m1, ed), ed, "deleteLine", "true")
  ELSE IF is("isDeleteLineForward")
    THEN execCommand(preventDefault(m1, ed), ed, "deleteLine", "false")
  ELSE IF is("isBold")
    THEN execCommand(preventDefault(m1, ed), ed, "formatText", "bold")
  ELSE IF is("isUnderline")
    THEN execCommand(preventDefault(m1, ed), ed, "formatText", "underline")
  ELSE IF is("isItalic")
    THEN execCommand(preventDefault(m1, ed), ed, "formatText", "italic")
  ELSE IF is("isTab") THEN execCommand(m1, ed, "keyTab", "event")
  ELSE IF is("isUndo") THEN execCommand(preventDefault(m1, ed), ed, "undo", "")
  ELSE IF is("isRedo") THEN execCommand(preventDefault(m1, ed), ed, "redo", "")
  ELSE m1


\* --------------------------------------------------------- onBeforeInput
\* The selection an update scope works on ($getSelection()): null exactly
\* when the editor's selection is null; its points are what the engine
\* resolved for this event (ev.sel: anchor, focus, collapsed, dirty).
getSelection(ev, ed) == IF selection[ed] = "null" THEN "null" ELSE "range"

\* $applyTargetRange followed by the reads of anchor and focus
\* (onBeforeInput, lines 192-202): the points the switch works on.
applyTargetRange(ev) ==
  IF /\ ~ev.sel.dirty
     /\ ev.sel.collapsed
     /\ ~isRootNode(ev.sel.anchor)
     /\ ev.targetRange.present
    THEN [anchor |-> ev.targetRange.anchor, focus |-> ev.targetRange.focus]
    ELSE [anchor |-> ev.sel.anchor, focus |-> ev.sel.focus]

\* $canRemoveText refusing whenever anchor and focus are one node.
canRemoveTextSameNodeOnly(anchorNode, focusNode) == anchorNode # focusNode

canRemoveText(anchorNode, focusNode) ==
  \/ anchorNode # focusNode
  \/ isElementNode(anchorNode)
  \/ isElementNode(focusNode)
  \/ ~isTokenOrInert(anchorNode)
  \/ ~isTokenOrInert(focusNode)

\* The switch of onBeforeInput (lines 231-321), after preventDefault.
beforeInputSwitch(m, ev, ed, pts) ==
  LET t == ev.inputType IN
  CASE t \in {"insertFromYank", "insertFromDrop", "insertReplacementText"} ->
         execCommand(m, ed, "insertText", "event")
    [] t = "insertFromComposition" ->
         execCommand(setCompositionKey(m, ed, "null"), ed, "insertText", "event")
    [] t = "insertLineBreak" ->
         execCommand(setCompositionKey(m, ed, "null"), ed, "insertLineBreak", "")
    [] t = "insertParagraph" ->
         execCommand(setCompositionKey(m, ed, "null"), ed, "insertParagraph", "")
    [] t \in {"insertFromPaste", "insertFromPasteAsQuotation"} ->
         execCommand(m, ed, "paste", "event")
    [] t = "deleteByComposition" ->
         IF canRemoveText(pts.anchor, pts.focus)
           THEN execCommand(m, ed, "removeText", "")
           ELSE m
    [] t \in {"deleteByDrag", "deleteByCut"} ->
         execCommand(m, ed, "removeText", "")
    [] t = "deleteContent" -> execCommand(m, ed, "deleteCharacter", "false")
    [] t = "deleteWordBackward" -> execCommand(m, ed, "deleteWord", "true")
    [] t = "deleteWordForward" -> execCommand(m, ed, "deleteWord", "false")
    [] t \in {"deleteHardLineBackward", "deleteSoftLineBackward"} ->
         execCommand(m, ed, "deleteLine", "true")
    [] t \in {"deleteContentForward", "deleteHardLineForward",
              "deleteSoftLineForward"} ->
         execCommand(m, ed, "deleteLine", "false")
    [] t = "formatStrikeThrough" -> execCommand(m, ed, "formatText", "strikethrough")
    [] t = "formatBold" -> execCommand(m, ed, "formatText", "bold")
    [] t = "formatItalic" -> execCommand(m, ed, "formatText", "italic")
    [] t = "formatUnderline" -> execCommand(m, ed, "formatText", "underline")
    [] t = "historyUndo" -> execCommand(m, ed, "undo", "")
    [] t = "historyRedo" -> execCommand(m, ed, "redo", "")
    [] OTHER -> m

\* The insertText branch of onBeforeInput (lines 204-224).
beforeInputInsertText(m, ev, ed) ==
  IF ev.data = "\n"
    THEN execCommand(preventDefault(m, ed), ed, "insertLineBreak", "")
  ELSE IF ev.data = "\n\n"
    THEN execCommand(preventDefault(m, ed), ed, "insertParagraph", "")
  ELSE IF ev.data = "null" /\ ev.dataTransfer
    THEN Emit(preventDefault(m, ed), Eff("insertRawText", ed, "text/plain", ""))
  ELSE IF ev.data # "null" /\ ev.shouldInsert
    THEN execCommand(preventDefault(m, ed), ed, "insertText", ev.data)
  ELSE m

onBeforeInput(m, ev, ed) ==
  IF ev.inputType \in {"deleteCompositionText", "insertCompositionText"}
    THEN m
  ELSE
    LET m1 == update(m, ed) IN
    IF getSelection(ev, ed) = "null" THEN m1
    ELSE IF ev.inputType = "deleteContentBackward"
      THEN execCommand(preventDefault(setCompositionKey(m1, ed, "null"), ed),
                       ed, "deleteCharacter", "true")
    ELSE IF ev.inputType = "insertText"
      THEN beforeInputInsertText(m1, ev, ed)
    ELSE beforeInputSwitch(preventDefault(m1, ed), ev, ed, applyTargetRange(ev))

\* ---------------------------------------------------------------- onInput
onInput(m, ev, ed) ==
  LET m1 == update(Emit(m, Eff("stopPropagation", ed, "", "")), ed)
      m2 == IF /\ ev.data # "null"
               /\ getSelection(ev, ed) # "null"
               /\ ev.shouldInsert
              THEN execCommand(m1, ed, "insertText", ev.data)
              ELSE Emit(m1, Eff("updateSelectedTextFromDOM", ed, "false", ""))
  IN Emit(m2, Eff("flushMutations", ed, "", ""))

\* ----------------------------------------------------- onCompositionStart
\* onCompositionStart without the isComposing() test.
onCompositionStartAlways(m, ev, ed) ==
  LET m1 == update(m, ed) IN
  IF getSelection(ev, ed) # "null"
    THEN LET m2 == setCompositionKey(m1, ed, ev.sel.anchor) IN
         IF \/ ~m2.flag
            \/ pointType(ev.sel.anchor) = "element"
            \/ ~ev.sel.collapsed
           THEN execCommand(m2, ed, "insertText", " ")
           ELSE m2
    ELSE m1

onCompositionStart(m, ev, ed) ==
  LET m1 == update(m, ed) IN
  IF getSelection(ev, ed) # "null" /\ ~isComposing(m1, ed)
    THEN LET m2 == setCompositionKey(m1, ed, ev.sel.anchor) IN
         IF \/ ~m2.flag
            \/ pointType(ev.sel.anchor) = "element"
            \/ ~ev.sel.collapsed
           THEN execCommand(m2, ed, "insertText", " ")
           ELSE m2
    ELSE m1

\* ------------------------------------------------------- onCompositionEnd
onCompositionEndInternal(m, ed) ==
  Emit(setCompositionKey(update(m, ed), ed, "null"),
       Eff("updateSelectedTextFromDOM", ed, "true", ""))

\* onCompositionEnd doing the work at once on every platform.
onCompositionEndSynchronous(m, ev, ed) ==
  onCompositionEndInternal(m, ed)

\* On Firefox the work is left to a setTimeout(..., 0) callback, which
\* keeps the event (its target) and the editor.
onCompositionEnd(m, ev, ed) ==
  IF IS_FIREFOX
    THEN Emit([m EXCEPT !.timers = Append(@, [ed |-> ed, target |-> ev.target])],
              Eff("setTimeout", ed, "", ""))
    ELSE onCompositionEndInternal(m, ed)

\* ---------------------------------------------------------------- onClick
\* onClick without the comparison with the last committed selection.
onClickAnyLastSelection(m, ev, ed) ==
  LET m1 == update(m, ed) IN
  IF getSelection(ev, ed) = "null" THEN m1
  ELSE IF /\ pointType(ev.sel.anchor) = "element"
          /\ ev.sel.offset = 0
          /\ ev.sel.collapsed
          /\ ev.rootChildrenSize = 1
          /\ ev.topLevelEmpty
    THEN Emit(Emit(m1, Eff("removeAllRanges", ed, "", "")),
              Eff("selectionDirty", ed, "", ""))
    ELSE m1

onClick(m, ev, ed) ==
  LET m1 == update(m, ed) IN
  IF getSelection(ev, ed) = "null" THEN m1
  ELSE IF /\ pointType(ev.sel.anchor) = "element"
          /\ ev.sel.offset = 0
          /\ ev.sel.collapsed
          /\ ev.rootChildrenSize = 1
          /\ ev.topLevelEmpty
          /\ ev.lastSelection = "same"
    THEN Emit(Emit(m1, Eff("removeAllRanges", ed, "", "")),
              Eff("selectionDirty", ed, "", ""))
    ELSE m1

\* ------------------------------------------------------- the editable gate
isRootEditable(ed) ==
  /\ rootElement[ed] # "null"
  /\ contentEditable[rootElement[ed]] = "true"

\* The semantic handler a table entry names.
onEvent(handler, m, ev, ed) ==
  CASE handler = "onKeyDown" -> onKeyDown(m, ev, ed)
    [] handler = "onCompositionStart" -> onCompositionStart(m, ev, ed)
    [] handler = "onCompositionEnd" -> onCompositionEnd(m, ev, ed)
    [] handler = "onInput" -> onInput(m, ev, ed)
    [] handler = "onClick" -> onClick(m, ev, ed)
    [] handler = "onBeforeInput" -> onBeforeInput(m, ev, ed)

\* The listener with its editability check left out.
eventHandlerUngated(l, m, ev) ==
  IF l.handler # PASS_THROUGH_COMMAND
    THEN onEvent(l.handler, m, ev, l.ed)
    ELSE execCommand(m, l.ed, l.name, "event")

\* The listener addRootElementEvents builds for one table entry
\* (lines 556-567); l is [name, handler, ed, id].
eventHandler(l, m, ev) ==
  IF l.handler # PASS_THROUGH_COMMAND
    THEN IF isRootEditable(l.ed) THEN onEvent(l.handler, m, ev, l.ed) ELSE m
    ELSE IF isRootEditable(l.ed) THEN execCommand(m, l.ed, l.name, "event") ELSE m

\* The browser runs the listeners of one event on one element in the
\* order they were added.
RECURSIVE runListeners(_, _, _)
runListeners(ls, m, ev) ==
  IF ls = <<>> THEN m
  ELSE runListeners(Tail(ls),
                    IF Head(ls).name = ev.type THEN eventHandler(Head(ls), m, ev) ELSE m,
                    ev)


\* ------------------------------------------------------ the host's record
\* What the host did to a root element so far, kept beside the program's
\* state to state the lifecycle properties.  phase follows the calls
\* D (addDocumentSelectionChangeEvent), R (addRootElementEvents) and
\* X (removeRootElementEvents, when it returns): "a1" is one attach (D and
\* R, in either order) of a fresh element, "d1" its detach, "ada" the
\* attach after that detach; any other history is "other".
nextPhase(phase, call) ==
  CASE phase = "fresh" /\ call = "D" -> "fD"
    [] phase = "fresh" /\ call = "R" -> "fR"
    [] phase = "fD" /\ call = "R" -> "a1"
    [] phase = "fR" /\ call = "D" -> "a1"
    [] phase = "a1" /\ call = "X" -> "d1"
    [] phase = "d1" /\ call = "D" -> "dD"
    [] phase = "d1" /\ call = "R" -> "dR"
    [] phase = "dD" /\ call = "R" -> "ada"
    [] phase = "dR" /\ call = "D" -> "ada"
    [] OTHER -> "other"

\* detached: removeRootElementEvents has returned and addRootElementEvents
\* was not called since.
record(l, call) ==
  [phase |-> nextPhase(l.phase, call),
   detached |-> IF call = "X" THEN TRUE ELSE IF call = "R" THEN FALSE ELSE l.detached]

Obs(op, s, in, trace, threw) ==
  [op |-> op, s |-> s, in |-> in, trace |-> trace, threw |-> threw]

\* ------------------------------------------------------------------- Init
Init ==
  /\ IS_FIREFOX \in BOOLEAN
  /\ CAN_USE_BEFORE_INPUT \in BOOLEAN
  /\ contentEditable = [s \in Surfaces |-> "true"]
  /\ lexicalEditor = [s \in Surfaces |-> "undefined"]
  /\ lexicalEventHandles = [s \in Surfaces |-> [defined |-> FALSE, list |-> <<>>]]
  /\ listeners = [s \in Surfaces |-> <<>>]
  /\ doc = [lexicalEvent |-> FALSE, listeners |-> 0]
  /\ rootElement = [e \in Editors |-> "null"]
  /\ compositionKey = [e \in Editors |-> "null"]
  /\ selection = [e \in Editors |-> "null"]
  /\ lastKeyWasMaybeAndroidSoftKey = FALSE
  /\ activeNestedEditorsMap = [k \in Editors |-> "undefined"]
  /\ timers = <<>>
  /\ life = [s \in Surfaces |-> [phase |-> "fresh", detached |-> FALSE]]
  /\ obs = Obs("init", "", "", <<>>, FALSE)

\* -------------------------------------------------------------- the host
\* The host makes a root element editable or not.
SetContentEditable(s, v) ==
  /\ contentEditable[s] # v
  /\ contentEditable' = [contentEditable EXCEPT ![s] = v]
  /\ obs' = Obs("setContentEditable", s, v, <<>>, FALSE)
  /\ UNCHANGED <<platformVars, lexicalEditor, lexicalEventHandles, listeners, doc,
                 rootElement, compositionKey, selection,
                 lastKeyWasMaybeAndroidSoftKey, activeNestedEditorsMap, timers, life>>

\* editor.setRootElement(rootElement) as the editor's own field sees it:
\* getRootElement() answers the element or null.
SetRootElement(e, v) ==
  /\ rootElement[e] # v
  /\ rootElement' = [rootElement EXCEPT ![e] = v]
  /\ obs' = Obs("setRootElement", e, v, <<>>, FALSE)
  /\ UNCHANGED <<platformVars, contentEditable, lexicalEditor, lexicalEventHandles,
                 listeners, doc, compositionKey, selection,
                 lastKeyWasMaybeAndroidSoftKey, activeNestedEditorsMap, timers, life>>

\* -------------------------------------------------------- attach / detach
\* getRootElementRemoveHandles: the element's list, made on first use.
getRootElementRemoveHandles(h) ==
  IF h.defined THEN h ELSE [defined |-> TRUE, list |-> <<>>]

\* clearRootElementRemoveHandles leaving the old list in place.
clearRootElementRemoveHandlesKept(h) == [defined |-> TRUE, list |-> h.list]

\* clearRootElementRemoveHandles
clearRootElementRemoveHandles(h) == [defined |-> TRUE, list |-> <<>>]

\* A new closure is a listener no earlier one equals.
RECURSIVE maxId(_)
maxId(ls) ==
  IF ls = <<>> THEN 0
  ELSE LET r == maxId(Tail(ls)) IN IF Head(ls).id > r THEN Head(ls).id ELSE r

\* rootElement.addEventListener(name, handler)
addEventListener(ls, l) ==
  IF \E i \in 1..Len(ls) : ls[i].name = l.name /\ ls[i].id = l.id
    THEN ls ELSE Append(ls, l)

\* rootElement.removeEventListener(name, handler): what a remove handle does
IsNot(x, h) == ~(x.name = h.name /\ x.id = h.id)
removeEventListener(ls, h) ==
  LET keep(x) == IsNot(x, h) IN SelectSeq(ls, keep)

\* The loop of addRootElementEvents from table entry i on; st is
\* [listeners, handles] of the element.
RECURSIVE addLoop(_, _, _)
addLoop(i, st, ed) ==
  IF i > Len(rootElementEvents) THEN st
  ELSE LET l == [name |-> rootElementEvents[i][1],
                 handler |-> rootElementEvents[i][2],
                 ed |-> ed,
                 id |-> maxId(st.listeners) + 1]
       IN addLoop(i + 1,
                  [listeners |-> addEventListener(st.listeners, l),
                   handles |-> Append(st.handles, [name |-> l.name, id |-> l.id])],
                  ed)

\* The loop of removeRootElementEvents: every handle is invoked.
RECURSIVE removeLoop(_, _)
removeLoop(handles, ls) ==
  IF handles = <<>> THEN ls
  ELSE removeLoop(Tail(handles), removeEventListener(ls, Head(handles)))

addDocumentSelectionChangeEvent(s, e) ==
  /\ lexicalEditor' = [lexicalEditor EXCEPT ![s] = e]
  /\ doc' = IF ~doc.lexicalEvent
              THEN [lexicalEvent |-> TRUE, listeners |-> doc.listeners + 1]
              ELSE doc
  /\ life' = [life EXCEPT ![s] = record(@, "D")]
  /\ obs' = Obs("addDocumentSelectionChangeEvent", s, e, <<>>, FALSE)
  /\ UNCHANGED <<platformVars, contentEditable, lexicalEventHandles, listeners,
                 rootElement, compositionKey, selection,
                 lastKeyWasMaybeAndroidSoftKey, activeNestedEditorsMap, timers>>

addRootElementEvents(s, e) ==
  /\ Len(listeners[s]) < MaxAttach * Len(rootElementEvents)
  /\ LET h == getRootElementRemoveHandles(lexicalEventHandles[s])
         st == addLoop(1, [listeners |-> listeners[s], handles |-> h.list], e)
     IN /\ listeners' = [listeners EXCEPT ![s] = st.listeners]
        /\ lexicalEventHandles' =
             [lexicalEventHandles EXCEPT ![s] = [defined |-> TRUE, list |-> st.handles]]
  /\ life' = [life EXCEPT ![s] = record(@, "R")]
  /\ obs' = Obs("addRootElementEvents", s, e, <<>>, FALSE)
  /\ UNCHANGED <<platformVars, contentEditable, lexicalEditor, doc, rootElement,
                 compositionKey, selection, lastKeyWasMaybeAndroidSoftKey,
                 activeNestedEditorsMap, timers>>

\* cleanActiveNestedEditorsMap with the nested branch deleting the root's
\* entry whatever its value.
cleanActiveNestedEditorsMapAnyValue(map, editor) ==
  LET editors == getEditorsToPropagate(editor)
      rootEditorKey == editorKey(Last(editors))
  IN [map EXCEPT ![rootEditorKey] = "undefined"]

cleanActiveNestedEditorsMap(map, editor) ==
  IF parentEditor(editor) # "null"
    THEN LET editors == getEditorsToPropagate(editor)
             rootEditorKey == editorKey(Last(editors))
         IN IF map[rootEditorKey] = editor
              THEN [map EXCEPT ![rootEditorKey] = "undefined"]
              ELSE map
    ELSE [map EXCEPT ![editorKey(editor)] = "undefined"]

\* removeRootElementEvents.  With no editor on the element
\* (__lexicalEditor undefined or null) the read of editor._parentEditor
\* throws before anything is changed.
removeRootElementEvents(s) ==
  IF lexicalEditor[s] \in {"undefined", "null"}
    THEN /\ obs' = Obs("removeRootElementEvents", s, "", <<>>, TRUE)
         /\ UNCHANGED <<platformVars, contentEditable, lexicalEditor,
                        lexicalEventHandles, listeners, doc, rootElement,
                        compositionKey, selection, lastKeyWasMaybeAndroidSoftKey,
                        activeNestedEditorsMap, timers, life>>
    ELSE /\ activeNestedEditorsMap' =
              cleanActiveNestedEditorsMap(activeNestedEditorsMap, lexicalEditor[s])
         /\ lexicalEditor' = [lexicalEditor EXCEPT ![s] = "null"]
         /\ LET h == getRootElementRemoveHandles(lexicalEventHandles[s]) IN
            /\ listeners' = [listeners EXCEPT ![s] = removeLoop(h.list, @)]
            /\ lexicalEventHandles' =
                 [lexicalEventHandles EXCEPT ![s] = clearRootElementRemoveHandles(h)]
         /\ life' = [life EXCEPT ![s] = record(@, "X")]
         /\ obs' = Obs("removeRootElementEvents", s, lexicalEditor[s], <<>>, FALSE)
         /\ UNCHANGED <<platformVars, contentEditable, doc, rootElement,
                        compositionKey, selection, lastKeyWasMaybeAndroidSoftKey,
                        timers>>


\* ------------------------------------------------------------ raw events
\* The browser delivers event ev to root element s (the event actions
\* below name the element it targets): every listener of that
\* event type on s runs, in order, within one turn.
hasListener(s, type) == \E i \in 1..Len(listeners[s]) : listeners[s][i].name = type
countListeners(s, type) ==
  Cardinality({i \in 1..Len(listeners[s]) : listeners[s][i].name = type})

Deliver(s, ev) ==
  /\ (ev.type = "compositionend" /\ IS_FIREFOX)
       => Len(timers) + countListeners(s, "compositionend") <= MaxTimers
  /\ LET m == runListeners(listeners[s],
                           Machine(compositionKey, lastKeyWasMaybeAndroidSoftKey,
                                   timers, <<>>),
                           ev)
     IN /\ compositionKey' = m.ck
        /\ lastKeyWasMaybeAndroidSoftKey' = m.flag
        /\ timers' = m.timers
        /\ obs' = Obs("event", s, ev, m.trace, FALSE)
  /\ UNCHANGED <<platformVars, contentEditable, lexicalEditor, lexicalEventHandles,
                 listeners, doc, rootElement, selection, activeNestedEditorsMap, life>>

\* The selection the engine resolves for an event.
Sel(anchor, focus, collapsed, dirty, offset) ==
  [anchor |-> anchor, focus |-> focus, collapsed |-> collapsed,
   dirty |-> dirty, offset |-> offset]

KeyEvent(s, key, keyCode, matches, isBackspace, isDelete) ==
  [type |-> "keydown", target |-> s, key |-> key, keyCode |-> keyCode,
   matches |-> matches, isBackspace |-> isBackspace, isDelete |-> isDelete]

KeyDown(s, k) ==
  /\ s \in Surfaces
  /\ Deliver(s, KeyEvent(s, k.key, k.keyCode, k.matches, k.isBackspace, k.isDelete))

CompositionStart(s, sel) ==
  /\ s \in Surfaces
  /\ Deliver(s, [type |-> "compositionstart", target |-> s, sel |-> sel])

CompositionEnd(s) ==
  /\ s \in Surfaces
  /\ Deliver(s, [type |-> "compositionend", target |-> s])

Input(s, data, shouldInsert) ==
  /\ s \in Surfaces
  /\ Deliver(s, [type |-> "input", target |-> s, data |-> data,
                 shouldInsert |-> shouldInsert])

Click(s, c) ==
  /\ s \in Surfaces
  /\ Deliver(s, [type |-> "click", target |-> s, sel |-> c.sel,
                 rootChildrenSize |-> c.rootChildrenSize,
                 topLevelEmpty |-> c.topLevelEmpty,
                 lastSelection |-> c.lastSelection])

BeforeInput(s, b) ==
  /\ s \in Surfaces
  /\ Deliver(s, [type |-> "beforeinput", target |-> s, inputType |-> b.inputType,
                 data |-> b.data, dataTransfer |-> b.dataTransfer,
                 shouldInsert |-> b.shouldInsert, sel |-> b.sel,
                 targetRange |-> b.targetRange])

PassThroughNames == {"cut", "copy", "dragstart", "paste", "focus", "blur", "drop"}

PassThrough(s, name) ==
  /\ s \in Surfaces
  /\ Deliver(s, [type |-> name, target |-> s])

\* A pending setTimeout callback of onCompositionEnd runs.
TimerFires ==
  /\ timers # <<>>
  /\ LET t == Head(timers)
         m == onCompositionEndInternal(
                Machine(compositionKey, lastKeyWasMaybeAndroidSoftKey,
                        Tail(timers), <<>>),
                t.ed)
     IN /\ compositionKey' = m.ck
        /\ lastKeyWasMaybeAndroidSoftKey' = m.flag
        /\ timers' = m.timers
        /\ obs' = Obs("timeout", t.target, t.ed, m.trace, FALSE)
  /\ UNCHANGED <<platformVars, contentEditable, lexicalEditor, lexicalEventHandles,
                 listeners, doc, rootElement, selection, activeNestedEditorsMap, life>>

\* ------------------------------------------------ onDocumentSelectionChange
\* The walk from the anchor node up: the first element that is editable
\* and carries an editor reference (anything but undefined), or "null".
RECURSIVE findEditorElement(_)
findEditorElement(node) ==
  IF node = "null" THEN "null"
  ELSE IF contentEditable[node] = "true" /\ lexicalEditor[node] # "undefined"
    THEN node
  ELSE findEditorElement(parentNode(node))

\* onSelectionChange whose inactive branch leaves the selection as it is.
onSelectionChangeNoDeactivation(trace, ed, isActive, r) ==
  LET t1 == Append(trace, Eff("update", ed, "", "")) IN
  IF ~isActive
    THEN t1
    ELSE LET t2 == IF ~r.null /\ r.collapsed
                     THEN IF pointType(r.anchor) = "text"
                            THEN Append(t1, Eff("setFormat", ed, "anchorNode.getFormat()", ""))
                            ELSE Append(t1, Eff("setFormat", ed, "0", ""))
                     ELSE t1
         IN Append(t2, Eff("execCommand", ed, "selectionChange", ""))

\* onSelectionChange(editor, isActive); r is the selection the engine
\* resolves inside the update: [null, anchor, collapsed].
onSelectionChange(trace, ed, isActive, r) ==
  LET t1 == Append(trace, Eff("update", ed, "", "")) IN
  IF ~isActive
    THEN Append(t1, Eff("setSelection", ed, "null", ""))
    ELSE LET t2 == IF ~r.null /\ r.collapsed
                     THEN IF pointType(r.anchor) = "text"
                            THEN Append(t1, Eff("setFormat", ed, "anchorNode.getFormat()", ""))
                            ELSE Append(t1, Eff("setFormat", ed, "0", ""))
                     ELSE t1
         IN Append(t2, Eff("execCommand", ed, "selectionChange", ""))

\* The bookkeeping of lines 520-525 with the root case never deleting.
updateMapNoDelete(map, rootEditor, nextActiveEditor) ==
  IF nextActiveEditor # rootEditor
    THEN [map EXCEPT ![editorKey(rootEditor)] = nextActiveEditor]
    ELSE map

\* The bookkeeping of lines 520-525.
updateMap(map, rootEditor, nextActiveEditor) ==
  IF nextActiveEditor # rootEditor
    THEN [map EXCEPT ![editorKey(rootEditor)] = nextActiveEditor]
    ELSE IF map[editorKey(rootEditor)] # "undefined"
      THEN [map EXCEPT ![editorKey(rootEditor)] = "undefined"]
      ELSE map

\* The document's selectionchange listener runs; the platform selection's
\* anchor node lies in root element a ("null": outside every root element).
DocumentSelectionChange(a, r) ==
  /\ doc.listeners > 0
  /\ LET el == findEditorElement(a) IN
     IF el = "null"
       THEN \* no element found: nothing is done
            /\ obs' = Obs("selectionchange", a, r, <<>>, FALSE)
            /\ UNCHANGED <<selection, activeNestedEditorsMap>>
     ELSE IF lexicalEditor[el] = "null"
       THEN \* getEditorsToPropagate(null) is empty: rootEditor._key throws
            /\ obs' = Obs("selectionchange", a, r, <<>>, TRUE)
            /\ UNCHANGED <<selection, activeNestedEditorsMap>>
     ELSE
       LET nextActiveEditor == lexicalEditor[el]
           editors == getEditorsToPropagate(nextActiveEditor)
           rootEditor == Last(editors)
           rootEditorKey == editorKey(rootEditor)
           activeNestedEditor == activeNestedEditorsMap[rootEditorKey]
           prevActiveEditor == IF activeNestedEditor # "undefined"
                                 THEN activeNestedEditor ELSE rootEditor
           t1 == IF prevActiveEditor # nextActiveEditor
                   THEN onSelectionChange(<<>>, prevActiveEditor, FALSE, r)
                   ELSE <<>>
           t2 == onSelectionChange(t1, nextActiveEditor, TRUE, r)
           sel1 == IF prevActiveEditor # nextActiveEditor
                     THEN [selection EXCEPT ![prevActiveEditor] = "null"]
                     ELSE selection
       IN /\ selection' = [sel1 EXCEPT ![nextActiveEditor] =
                             IF r.null THEN "null" ELSE "range"]
          /\ activeNestedEditorsMap' =
               updateMap(activeNestedEditorsMap, rootEditor, nextActiveEditor)
          /\ obs' = Obs("selectionchange", a, r, t2, FALSE)
  /\ UNCHANGED <<platformVars, contentEditable, lexicalEditor, lexicalEventHandles,
                 listeners, doc, rootElement, compositionKey,
                 lastKeyWasMaybeAndroidSoftKey, timers, life>>


\* ----------------------------------------------------------- input sets
NoRange == [present |-> FALSE, anchor |-> "p", focus |-> "p"]
Resolved(null, anchor, collapsed) ==
  [null |-> null, anchor |-> anchor, collapsed |-> collapsed]
Key(key, keyCode, matches, isBackspace, isDelete) ==
  [key |-> key, keyCode |-> keyCode, matches |-> matches,
   isBackspace |-> isBackspace, isDelete |-> isDelete]
BeforeInputEvent(inputType, data, dataTransfer, shouldInsert, sel, targetRange) ==
  [inputType |-> inputType, data |-> data, dataTransfer |-> dataTransfer,
   shouldInsert |-> shouldInsert, sel |-> sel, targetRange |-> targetRange]
ClickEvent(sel, rootChildrenSize, topLevelEmpty, lastSelection) ==
  [sel |-> sel, rootChildrenSize |-> rootChildrenSize,
   topLevelEmpty |-> topLevelEmpty, lastSelection |-> lastSelection]

\* The events of the lifecycle specification: one root element, a few
\* inputs of every event type.
EvtSurfaces == {"R1"}
EvtKeys == { Key("b", 66, {"isBold"}, FALSE, FALSE) }
EvtSels == { Sel("t", "t", TRUE, FALSE, 0) }
EvtInputTypes ==
  { "deleteContentBackward", "insertFromComposition", "insertLineBreak",
    "insertParagraph", "deleteWordBackward" }
EvtBeforeInputs ==
  { BeforeInputEvent(t, "x", FALSE, TRUE, Sel("t", "t", TRUE, FALSE, 0), NoRange)
      : t \in EvtInputTypes }
EvtClicks == { ClickEvent(Sel("p", "p", TRUE, FALSE, 0), 1, TRUE, "same") }
EvtResolved == { Resolved(TRUE, "t", TRUE), Resolved(FALSE, "t", TRUE) }

\* ------------------------------------------------------------------- Next
Lifecycle(S) ==
  \/ \E s \in S : addDocumentSelectionChangeEvent(s, s)
  \/ \E s \in S : addRootElementEvents(s, s)
  \/ \E s \in S : removeRootElementEvents(s)
  \/ \E s \in S, v \in {"true", "false"} : SetContentEditable(s, v)
  \/ \E s \in S : \E v \in {"null", s} : SetRootElement(s, v)

RawEvents(S) ==
  \/ \E s \in S, k \in EvtKeys : KeyDown(s, k)
  \/ \E s \in S, sel \in EvtSels : CompositionStart(s, sel)
  \/ \E s \in S : CompositionEnd(s)
  \/ \E s \in S : Input(s, "x", TRUE)
  \/ \E s \in S, c \in EvtClicks : Click(s, c)
  \/ \E s \in S, b \in EvtBeforeInputs : BeforeInput(s, b)
  \/ \E s \in S, name \in PassThroughNames : PassThrough(s, name)
  \/ TimerFires

Next ==
  \/ Lifecycle(EvtSurfaces)
  \/ RawEvents(EvtSurfaces)
  \/ \E a \in EvtSurfaces, r \in EvtResolved : DocumentSelectionChange(a, r)

Spec == Init /\ [][Next]_vars


\* ------------------------------------------- the arbitration specification
\* The nested editors of both roots.  The host tags and untags the root
\* elements of R1, A, B and C (R2 is not mounted), makes A's element
\* editable or not, and the document reports selection changes whose anchor
\* lies in one of these elements or outside all of them.
SelSurfaces == {"R1", "A", "B", "C"}
SelToggleSurfaces == {"A"}
SelResolved == { Resolved(FALSE, "t", TRUE) }

InitSel == Init /\ ~IS_FIREFOX /\ CAN_USE_BEFORE_INPUT

NextSel ==
  \/ \E s \in SelSurfaces : addDocumentSelectionChangeEvent(s, s)
  \/ \E s \in SelSurfaces : removeRootElementEvents(s)
  \/ \E s \in SelToggleSurfaces, v \in {"true", "false"} : SetContentEditable(s, v)
  \/ \E a \in SelSurfaces \cup {"null"}, r \in SelResolved : DocumentSelectionChange(a, r)

SpecSel == InitSel /\ [][NextSel]_vars


\* --------------------------------------------- the translation specification
\* Key-down translation on a mounted editor.
\* The registrations one addRootElementEvents leaves on a fresh element.
attachedOnce(e) == addLoop(1, [listeners |-> <<>>, handles |-> <<>>], e)

\* The host mounts editor e on its own element once: it tags the element
\* (addDocumentSelectionChangeEvent), attaches the listeners
\* (addRootElementEvents) and gives the editor its root element.
MountOnce(e) ==
  \/ life[e].phase = "fresh" /\ addDocumentSelectionChangeEvent(e, e)
  \/ life[e].phase = "fD" /\ addRootElementEvents(e, e)
  \/ life[e].phase = "a1" /\ rootElement[e] = "null" /\ SetRootElement(e, e)

Mounted(e) == life[e].phase = "a1" /\ rootElement[e] = e

\* The key-down events.  A key satisfies no predicate, or one predicate
\* and a run of fewer than MaxMatch consecutive later ones.  isBackspace
\* and isDelete, which onKeyDown reads only under isDeleteBackward and
\* isDeleteForward, vary there.  The soft keyboard's key ("Unidentified",
\* 229) satisfies no predicate.
KeyMatches ==
  LET N == Len(KeyPredicates) IN
  {{}} \cup
  { {KeyPredicates[k] : k \in {c[1]} \cup (c[2]..(c[2] + c[3] - 1))} :
      c \in { d \in (1..N) \X (1..(N + 1)) \X (0..(MaxMatch - 1)) :
                d[1] < d[2] /\ d[2] + d[3] - 1 <= N } }
KeyInputs ==
  UNION { { Key("b", 66, ms, bs, dl) :
              bs \in (IF "isDeleteBackward" \in ms THEN BOOLEAN ELSE {FALSE}),
              dl \in (IF "isDeleteForward" \in ms THEN BOOLEAN ELSE {FALSE}) } :
          ms \in KeyMatches }
  \cup { Key("Unidentified", 229, {}, FALSE, FALSE) }

InitKey == Init /\ ~IS_FIREFOX /\ CAN_USE_BEFORE_INPUT

NextKey ==
  \/ MountOnce("R1")
  \/ Mounted("R1") /\ \E k \in KeyInputs : KeyDown("R1", k)
  \/ Mounted("R1") /\ \E sel \in EvtSels : CompositionStart("R1", sel)
  \/ Mounted("R1") /\ CompositionEnd("R1")
  \/ Mounted("R1") /\ \E r \in EvtResolved : DocumentSelectionChange("R1", r)

SpecKey == InitKey /\ [][NextKey]_vars


\* ------------------------------------------------ the beforeinput specification
\* The input types of the switch of onBeforeInput, those handled before
\* it, and one the switch does not know.
SwitchInputTypes ==
  { "insertFromYank", "insertFromDrop", "insertReplacementText",
    "insertFromComposition", "insertLineBreak", "insertParagraph",
    "insertFromPaste", "insertFromPasteAsQuotation", "deleteByComposition",
    "deleteByDrag", "deleteByCut", "deleteContent", "deleteWordBackward",
    "deleteWordForward", "deleteHardLineBackward", "deleteSoftLineBackward",
    "deleteContentForward", "deleteHardLineForward", "deleteSoftLineForward",
    "formatStrikeThrough", "formatBold", "formatItalic", "formatUnderline",
    "historyUndo", "historyRedo" }
OtherInputTypes ==
  { "deleteCompositionText", "insertCompositionText", "deleteContentBackward",
    "insertOrderedList" }

\* The selections the engine resolves: a collapsed one has anchor and
\* focus in one node; the platform's target range, when reported, lies
\* in text nodes.
InputSels ==
  { Sel(n, n, TRUE, d, 0) : n \in Nodes, d \in BOOLEAN }
  \cup { Sel(a, f, FALSE, d, 0) : a \in Nodes, f \in Nodes, d \in BOOLEAN }
InputTargetRanges ==
  { NoRange }
  \cup { [present |-> TRUE, anchor |-> a, focus |-> f] : a \in {"t", "k"}, f \in {"t", "k"} }

\* deleteByComposition with every selection and target range; the other
\* types with a collapsed text selection, with and without a target
\* range; insertText with each kind of data.
InputBeforeInputs ==
  { BeforeInputEvent("deleteByComposition", "null", FALSE, TRUE, sel, tr) :
      sel \in InputSels, tr \in InputTargetRanges }
  \cup { BeforeInputEvent(t, "x", FALSE, TRUE, Sel("t", "t", TRUE, FALSE, 0), tr) :
           t \in SwitchInputTypes \cup OtherInputTypes,
           tr \in { NoRange, [present |-> TRUE, anchor |-> "k", focus |-> "k"] } }
  \cup { BeforeInputEvent("insertText", d[1], d[2], d[3], Sel("t", "t", TRUE, FALSE, 0), NoRange) :
           d \in { <<"\n", FALSE, TRUE>>, <<"\n\n", FALSE, TRUE>>,
                   <<"null", TRUE, TRUE>>, <<"x", FALSE, TRUE>>,
                   <<"x", FALSE, FALSE>> } }

InitInput == Init /\ ~IS_FIREFOX /\ CAN_USE_BEFORE_INPUT

NextInput ==
  \/ MountOnce("R1")
  \/ Mounted("R1") /\ \E b \in InputBeforeInputs : BeforeInput("R1", b)
  \/ Mounted("R1") /\ \E sel \in EvtSels : CompositionStart("R1", sel)
  \/ Mounted("R1") /\ \E r \in EvtResolved : DocumentSelectionChange("R1", r)
  \/ Mounted("R1") /\ \E v \in {"true", "false"} : SetContentEditable("R1", v)

SpecInput == InitInput /\ [][NextInput]_vars


\* ============================================================ properties
rootOf(e) == Last(getEditorsToPropagate(e))
nestedTree(r) == {e \in Editors : rootOf(e) = r}
Roots == {e \in Editors : parentEditor(e) = "null"}
HasEffect(trace, P(_)) == \E i \in 1..Len(trace) : P(trace[i])
IsEvent(o, type) == o.op = "event" /\ o.in.type = type


\* C1 (as claimed): once removeRootElementEvents(s) has returned and until
\* the next addRootElementEvents(s), no step taken for an event of s - a
\* listener run or a deferred callback of one - dispatches a command or
\* changes the editor's composition key.
C1_DetachStopsHandlers ==
  [][\A s \in Surfaces :
       (life[s].detached /\ obs'.op \in {"event", "timeout"} /\ obs'.s = s)
         => (Commands(obs'.trace) = <<>> /\ compositionKey' = compositionKey)]_vars

\* C2: when removeRootElementEvents(s) returns for an element whose editor
\* reference was E, the map holds no entry whose value is E and, if E is a
\* root, no entry under E's key; the entries of other roots, and an entry of
\* E's root that names another nested editor, are as before.
C2_DetachCleansMap ==
  [][(obs'.op = "removeRootElementEvents" /\ ~obs'.threw)
       => LET E == lexicalEditor[obs'.s]
              k == editorKey(rootOf(E))
          IN /\ \A j \in Editors : activeNestedEditorsMap'[j] # E
             /\ parentEditor(E) = "null" => activeNestedEditorsMap'[k] = "undefined"
             /\ \A j \in Editors \ {k} :
                  activeNestedEditorsMap'[j] = activeNestedEditorsMap[j]
             /\ (parentEditor(E) # "null" /\ activeNestedEditorsMap[k] # E)
                  => activeNestedEditorsMap'[k] = activeNestedEditorsMap[k]]_vars

\* C2's case: A's element was detached while B was the active nested editor
\* of R1 and C that of R2; both entries are still there.
C2_Witness ==
  /\ obs.op = "removeRootElementEvents" /\ ~obs.threw /\ obs.in = "A"
  /\ activeNestedEditorsMap["R1"] = "B"
  /\ activeNestedEditorsMap["R2"] = "C"

\* C3 (as claimed): with addRootElementEvents called more than once on an
\* element, an event on it still dispatches the commands one registration
\* dispatches, as many times; and a returning removeRootElementEvents leaves
\* no listener on the element.
C3_DoubleAttachNoDuplicates ==
  [][/\ (obs'.op = "event" /\ listeners[obs'.s] # <<>>)
          => Commands(obs'.trace) =
               Commands(runListeners(
                 SubSeq(listeners[obs'.s], 1, Len(rootElementEvents)),
                 Machine(compositionKey, lastKeyWasMaybeAndroidSoftKey, timers, <<>>),
                 obs'.in).trace)
     /\ (obs'.op = "removeRootElementEvents" /\ ~obs'.threw)
          => listeners'[obs'.s] = <<>>]_vars

C5_OneSelectionPerTree ==
  \A r \in Roots : Cardinality({e \in nestedTree(r) : selection[e] # "null"}) <= 1

\* C6: every entry k -> e of the map names a nested editor e whose root has
\* key k; and after a selection change that activated a root editor, that
\* root has no entry.
C6_MapNamesNestedEditors ==
  /\ \A k \in Editors :
       activeNestedEditorsMap[k] # "undefined"
         => LET e == activeNestedEditorsMap[k] IN
            /\ e \in Editors
            /\ parentEditor(e) # "null"
            /\ editorKey(rootOf(e)) = k
            /\ e # rootOf(e)
  /\ (obs.op = "selectionchange" /\ obs.trace # <<>>
        /\ parentEditor(Last(obs.trace).ed) = "null")
       => activeNestedEditorsMap[editorKey(Last(obs.trace).ed)] = "undefined"

\* C6's case: the selection moved from nested B to the root R1, whose entry
\* is gone, while R2 keeps its entry C.
C6_Witness ==
  /\ obs.op = "selectionchange" /\ obs.trace # <<>>
  /\ obs.trace[1].ed = "B" /\ Last(obs.trace).ed = "R1"
  /\ activeNestedEditorsMap["R1"] = "undefined"
  /\ activeNestedEditorsMap["R2"] = "C"

\* C7 (as claimed): an editor's composition key becomes non-null only in a
\* compositionstart event, which sets no key when the editor is composing,
\* and becomes null only in composition-end handling (the compositionend
\* event or its deferred callback).
C7_CompositionWellFormed ==
  [][\A e \in Editors :
       /\ (compositionKey[e] = "null" /\ compositionKey'[e] # "null")
            => IsEvent(obs', "compositionstart")
       /\ (compositionKey[e] # "null" /\ IsEvent(obs', "compositionstart"))
            => ~HasEffect(obs'.trace, IsSetCompositionKey)
       /\ (compositionKey[e] # "null" /\ compositionKey'[e] = "null")
            => (IsEvent(obs', "compositionend") \/ obs'.op = "timeout")]_vars

\* The beforeinput types whose handling clears the composition key.
ClearingInputTypes ==
  {"deleteContentBackward", "insertFromComposition", "insertLineBreak",
   "insertParagraph"}

\* C7 (amended): as C7, but the key also becomes null in a beforeinput
\* event of type deleteContentBackward, insertFromComposition,
\* insertLineBreak or insertParagraph, and in no other step.
C7_CompositionTransitions ==
  [][\A e \in Editors :
       /\ (compositionKey[e] = "null" /\ compositionKey'[e] # "null")
            => IsEvent(obs', "compositionstart")
       /\ (compositionKey[e] # "null" /\ IsEvent(obs', "compositionstart"))
            => ~HasEffect(obs'.trace, IsSetCompositionKey)
       /\ (compositionKey[e] # "null" /\ compositionKey'[e] = "null")
            => \/ IsEvent(obs', "compositionend")
               \/ obs'.op = "timeout"
               \/ (IsEvent(obs', "beforeinput")
                     /\ obs'.in.inputType \in ClearingInputTypes)]_vars

\* C7's case: a beforeinput of type insertFromComposition took a composing
\* editor out of composition.
IsLeaveComposition(x) ==
  x.kind = "setCompositionKey" /\ x.name = "null" /\ x.payload # "null"
C7_Witness ==
  /\ IsEvent(obs, "beforeinput")
  /\ obs.in.inputType = "insertFromComposition"
  /\ HasEffect(obs.trace, IsLeaveComposition)
  /\ compositionKey[obs.s] = "null"

\* C8: an event delivered to an element whose editor is not editable has no
\* effect, whatever the table entry: no command, no update scope, no
\* composition key, soft-key flag or timer changed.
C8_EditableGate ==
  [][(obs'.op = "event" /\ ~isRootEditable(obs'.s))
       => /\ obs'.trace = <<>>
          /\ UNCHANGED <<compositionKey, lastKeyWasMaybeAndroidSoftKey, timers>>]_vars

\* C8's case: listeners are registered, the editor composes, and a
\* compositionend reached an element that is not editable.
C8_Witness ==
  /\ IsEvent(obs, "compositionend")
  /\ listeners[obs.s] # <<>>
  /\ ~isRootEditable(obs.s)
  /\ compositionKey[obs.s] # "null"

\* The keyboard table of the specification: the command each predicate
\* stands for.  The key-specific commands carry the raw event.
KeyTable(p, ev) ==
  CASE p = "isMoveForward" -> <<"keyArrowRight", "event">>
    [] p = "isMoveBackward" -> <<"keyArrowLeft", "event">>
    [] p = "isMoveUp" -> <<"keyArrowUp", "event">>
    [] p = "isMoveDown" -> <<"keyArrowDown", "event">>
    [] p = "isLineBreak" -> <<"keyEnter", "event">>
    [] p = "isOpenLineBreak" -> <<"insertLineBreak", "true">>
    [] p = "isParagraph" -> <<"keyEnter", "event">>
    [] p = "isDeleteBackward" ->
         IF ev.isBackspace THEN <<"keyBackspace", "event">>
                           ELSE <<"deleteCharacter", "true">>
    [] p = "isEscape" -> <<"keyEscape", "event">>
    [] p = "isDeleteForward" ->
         IF ev.isDelete THEN <<"keyDelete", "event">>
                        ELSE <<"deleteCharacter", "false">>
    [] p = "isDeleteWordBackward" -> <<"deleteWord", "true">>
    [] p = "isDeleteWordForward" -> <<"deleteWord", "false">>
    [] p = "isDeleteLineBackward" -> <<"deleteLine", "true">>
    [] p = "isDeleteLineForward" -> <<"deleteLine", "false">>
    [] p = "isBold" -> <<"formatText", "bold">>
    [] p = "isUnderline" -> <<"formatText", "underline">>
    [] p = "isItalic" -> <<"formatText", "italic">>
    [] p = "isTab" -> <<"keyTab", "event">>
    [] p = "isUndo" -> <<"undo", "">>
    [] p = "isRedo" -> <<"redo", "">>

\* The positions of KeyPredicates a key event satisfies.
Matching(ev) == {i \in 1..Len(KeyPredicates) : KeyPredicates[i] \in ev.matches}
FirstMatch(ev) == CHOOSE i \in Matching(ev) : \A j \in Matching(ev) : i <= j

\* C9: a key-down on an editable, non-composing editor whose element
\* carries the key-down listener of one attach dispatches
\* exactly one command, the one the keyboard table gives for the first
\* predicate (in the fixed order) the key satisfies, whatever later
\* predicates it also satisfies; when it satisfies none, no command is
\* dispatched and preventDefault is not called.  The outcome depends on
\* the key only.
C9_KeyDownFirstMatchWins ==
  [][\A e \in Editors :
       ( /\ IsEvent(obs', "keydown")
         /\ obs'.s = e
         /\ countListeners(e, "keydown") = 1
         /\ isRootEditable(e)
         /\ compositionKey[e] = "null" )
       => LET ev == obs'.in
              cmds == Commands(obs'.trace)
          IN IF Matching(ev) = {}
               THEN cmds = <<>> /\ PreventDefaults(obs'.trace) = <<>>
               ELSE /\ Len(cmds) = 1
                    /\ cmds[1].ed = e
                    /\ <<cmds[1].name, cmds[1].payload>>
                         = KeyTable(KeyPredicates[FirstMatch(ev)], ev)]_vars

\* A key that satisfies isBold and the later isUnderline was translated, on a
\* non-composing editor, to the one command formatText("bold").
C9_Witness ==
  /\ IsEvent(obs, "keydown")
  /\ obs.in.matches = {"isBold", "isUnderline"}
  /\ compositionKey["R1"] = "null"
  /\ selection["R1"] = "range"
  /\ isRootEditable("R1")
  /\ Len(Commands(obs.trace)) = 1
  /\ Commands(obs.trace)[1].payload = "bold"

\* The input-type table of the specification: the command of each row.
InputTable(t) ==
  CASE t \in {"insertFromYank", "insertFromDrop", "insertReplacementText",
              "insertFromComposition"} -> <<"insertText", "event">>
    [] t = "insertLineBreak" -> <<"insertLineBreak", "">>
    [] t = "insertParagraph" -> <<"insertParagraph", "">>
    [] t \in {"insertFromPaste", "insertFromPasteAsQuotation"} -> <<"paste", "event">>
    [] t \in {"deleteByComposition", "deleteByDrag", "deleteByCut"} -> <<"removeText", "">>
    [] t = "deleteContent" -> <<"deleteCharacter", "false">>
    [] t = "deleteWordBackward" -> <<"deleteWord", "true">>
    [] t = "deleteWordForward" -> <<"deleteWord", "false">>
    [] t \in {"deleteHardLineBackward", "deleteSoftLineBackward"} -> <<"deleteLine", "true">>
    [] t \in {"deleteContentForward", "deleteHardLineForward",
              "deleteSoftLineForward"} -> <<"deleteLine", "false">>
    [] t = "formatStrikeThrough" -> <<"formatText", "strikethrough">>
    [] t = "formatBold" -> <<"formatText", "bold">>
    [] t = "formatItalic" -> <<"formatText", "italic">>
    [] t = "formatUnderline" -> <<"formatText", "underline">>
    [] t = "historyUndo" -> <<"undo", "">>
    [] t = "historyRedo" -> <<"redo", "">>
InputTableRows == SwitchInputTypes
EndsCompositionInputTypes == {"insertFromComposition", "insertLineBreak", "insertParagraph"}

\* Anchor and focus (as the switch reads them) are the same token/inert
\* text node.
SameAtomicNode(pts) ==
  /\ pts.anchor = pts.focus
  /\ ~isElementNode(pts.anchor)
  /\ isTokenOrInert(pts.anchor)

\* C10: a beforeinput event whose input type is a row of the input-type
\* table, on an editable element carrying the beforeinput listener of one
\* attach, with the editor's selection non-null, calls preventDefault and
\* dispatches exactly the one command of its row with the row's payload;
\* the composition key is set to null exactly for insertFromComposition,
\* insertLineBreak and insertParagraph; deleteByComposition dispatches
\* removeText unless anchor and focus are the same token/inert text node,
\* and then dispatches nothing.
C10_BeforeInputTable ==
  [][\A e \in Editors :
       ( /\ IsEvent(obs', "beforeinput")
         /\ obs'.s = e
         /\ countListeners(e, "beforeinput") = 1
         /\ isRootEditable(e)
         /\ selection[e] # "null"
         /\ obs'.in.inputType \in InputTableRows )
       => LET ev == obs'.in
              t == ev.inputType
              cmds == Commands(obs'.trace)
              suppressed == t = "deleteByComposition"
                            /\ SameAtomicNode(applyTargetRange(ev))
          IN /\ IF suppressed
                  THEN cmds = <<>>
                  ELSE /\ Len(cmds) = 1
                       /\ cmds[1].ed = e
                       /\ <<cmds[1].name, cmds[1].payload>> = InputTable(t)
             /\ Len(PreventDefaults(obs'.trace)) = 1
             /\ HasEffect(obs'.trace, IsSetCompositionKey)
                  <=> t \in EndsCompositionInputTypes
             /\ compositionKey'[e] =
                  IF t \in EndsCompositionInputTypes THEN "null" ELSE compositionKey[e]]_vars

\* On a composing editor, a deleteByComposition whose selection was in
\* the plain text node and whose target range put anchor and focus on the
\* token node called preventDefault and dispatched nothing.
C10_Witness ==
  /\ IsEvent(obs, "beforeinput")
  /\ isRootEditable("R1")
  /\ selection["R1"] = "range"
  /\ obs.in.inputType = "deleteByComposition"
  /\ obs.in.sel.anchor = "t"
  /\ obs.in.targetRange.present
  /\ SameAtomicNode(applyTargetRange(obs.in))
  /\ Commands(obs.trace) = <<>>
  /\ Len(PreventDefaults(obs.trace)) = 1
  /\ compositionKey["R1"] # "null"

\* The input types onBeforeInput knows: the two it leaves to the platform,
\* deleteContentBackward, insertText and the cases of the switch.
RecognizedInputTypes ==
  SwitchInputTypes
  \cup {"deleteCompositionText", "insertCompositionText",
        "deleteContentBackward", "insertText"}

\* C11 (as claimed): a beforeinput event whose input type onBeforeInput
\* does not know dispatches no command, leaves the composition key as it
\* was and does not call preventDefault.
C11_UnrecognizedIsNoOp ==
  [][\A e \in Editors :
       ( /\ IsEvent(obs', "beforeinput")
         /\ obs'.s = e
         /\ obs'.in.inputType \notin RecognizedInputTypes )
       => /\ Commands(obs'.trace) = <<>>
          /\ compositionKey' = compositionKey
          /\ PreventDefaults(obs'.trace) = <<>>]_vars

\* ------------------------------------------------------------------ C12
EffectsAt(trace, kind, ed, name) ==
  { i \in 1..Len(trace) :
      /\ trace[i].kind = kind
      /\ trace[i].ed = ed
      /\ trace[i].name = name }

\* C12: when a selection change is found in editor N of root R and the
\* editor P recorded as active in R's tree (R itself when nothing is
\* recorded) differs from N, P is processed once as inactive (its selection
\* set to null) before N is processed once as active (dispatching
\* selectionChange), and R's entry then holds N when N is nested and is
\* absent when N is R.
C12_SwitchDeactivatesThenActivates ==
  [][ ( /\ obs'.op = "selectionchange"
        /\ ~obs'.threw
        /\ findEditorElement(obs'.s) # "null" )
      => LET N == lexicalEditor[findEditorElement(obs'.s)]
             R == Last(getEditorsToPropagate(N))
             P == IF activeNestedEditorsMap[editorKey(R)] # "undefined"
                    THEN activeNestedEditorsMap[editorKey(R)] ELSE R
             tr == obs'.trace
             updP == EffectsAt(tr, "update", P, "")
             nulP == EffectsAt(tr, "setSelection", P, "null")
             updN == EffectsAt(tr, "update", N, "")
             cmdN == EffectsAt(tr, "execCommand", N, "selectionChange")
         IN P # N =>
              /\ Cardinality(updP) = 1
              /\ Cardinality(nulP) = 1
              /\ Cardinality(updN) = 1
              /\ Cardinality(cmdN) = 1
              /\ \A i \in updP, j \in nulP, k \in updN, l \in cmdN :
                   i < j /\ j < k /\ k < l
              /\ selection'[P] = "null"
              /\ activeNestedEditorsMap'[editorKey(R)] =
                   IF N # R THEN N ELSE "undefined" ]_vars

\* The active editor of R1's tree has just moved from nested editor A to
\* nested editor B.
C12_Witness ==
  /\ obs.op = "selectionchange"
  /\ ~obs.threw
  /\ Len(obs.trace) >= 4
  /\ obs.trace[2].kind = "setSelection"
  /\ obs.trace[2].ed = "A"
  /\ activeNestedEditorsMap["R1"] = "B"
  /\ selection["A"] = "null"

\* ------------------------------------------- the composition specification
\* One mounted root element on either platform.  Composition starts with
\* a text or an element anchor, collapsed or not; key-downs include the
\* soft keyboard's placeholder and its near misses; the deferred
\* composition-end callbacks run in the order they were scheduled; a
\* selection change resolves to null or to a selection with a text or an
\* element anchor, collapsed or not.
CompSels ==
  { Sel(a, a, c, FALSE, 0) : a \in {"t", "p"}, c \in BOOLEAN }
CompKeys ==
  { Key("Unidentified", 229, {}, FALSE, FALSE),
    Key("Unidentified", 0, {}, FALSE, FALSE),
    Key("Process", 229, {}, FALSE, FALSE),
    Key("b", 66, {"isBold"}, FALSE, FALSE) }
CompResolved ==
  { Resolved(TRUE, "t", TRUE) }
  \cup { Resolved(FALSE, a, c) : a \in {"t", "p"}, c \in BOOLEAN }

NextComp ==
  \/ MountOnce("R1")
  \/ Mounted("R1") /\ \E k \in CompKeys : KeyDown("R1", k)
  \/ Mounted("R1") /\ \E sel \in CompSels : CompositionStart("R1", sel)
  \/ Mounted("R1") /\ CompositionEnd("R1")
  \/ Mounted("R1") /\ Input("R1", "x", TRUE)
  \/ Mounted("R1") /\ TimerFires
  \/ Mounted("R1") /\ \E r \in CompResolved : DocumentSelectionChange("R1", r)
  \/ Mounted("R1") /\ \E v \in {"true", "false"} : SetContentEditable("R1", v)

SpecComp == Init /\ [][NextComp]_vars

\* ------------------------------------------------------------------ C13
\* The positions of an effect kind in a trace.
KindAt(trace, kind) == { i \in 1..Len(trace) : trace[i].kind = kind }

NeedsSpace(flag, sel) ==
  \/ ~flag
  \/ pointType(sel.anchor) = "element"
  \/ ~sel.collapsed

\* C13 (as claimed): a composition-start handled by an idle editor (editable
\* element, non-null selection) issues exactly one insertText(" ") when the
\* soft-key flag is false, the anchor is an element or the selection is not
\* collapsed, and issues it before the composition key is recorded; it issues
\* no command otherwise.  A composition-start on a composing editor issues no
\* command and leaves the composition key as it was.
C13_SpaceBeforeComposing ==
  [][\A e \in Editors :
       ( /\ IsEvent(obs', "compositionstart")
         /\ obs'.s = e
         /\ countListeners(e, "compositionstart") = 1
         /\ isRootEditable(e)
         /\ selection[e] # "null" )
       => LET tr == obs'.trace
              cmds == Commands(tr)
          IN IF compositionKey[e] = "null"
               THEN IF NeedsSpace(lastKeyWasMaybeAndroidSoftKey, obs'.in.sel)
                      THEN /\ Len(cmds) = 1
                           /\ cmds[1].name = "insertText"
                           /\ cmds[1].payload = " "
                           /\ compositionKey'[e] # "null"
                           /\ \A i \in KindAt(tr, "execCommand"),
                                 j \in KindAt(tr, "setCompositionKey") : i < j
                      ELSE /\ cmds = <<>>
                           /\ compositionKey'[e] # "null"
               ELSE /\ cmds = <<>>
                    /\ compositionKey'[e] = compositionKey[e] ]_vars

\* ------------------------------------------------- the click specification
\* One mounted root element; clicks with a text or an element anchor at
\* offset 0 or 1, collapsed or not, a document root of one or two children,
\* an empty or non-empty top-level element, and a last committed selection
\* that is null, the same as the current one or another one.
ClickInputs ==
  { ClickEvent(Sel(a, a, c, FALSE, off), n, empty, last) :
      a \in {"t", "p"}, c \in BOOLEAN, off \in {0, 1}, n \in {1, 2},
      empty \in BOOLEAN, last \in {"null", "same", "other"} }

InitClick == Init /\ ~IS_FIREFOX /\ CAN_USE_BEFORE_INPUT

NextClick ==
  \/ MountOnce("R1")
  \/ Mounted("R1") /\ \E c \in ClickInputs : Click("R1", c)
  \/ Mounted("R1") /\ \E r \in EvtResolved : DocumentSelectionChange("R1", r)
  \/ Mounted("R1") /\ \E v \in {"true", "false"} : SetContentEditable("R1", v)

SpecClick == InitClick /\ [][NextClick]_vars

\* ------------------------------------------------------------------ C14
ClickClears(e, ev) ==
  /\ selection[e] # "null"
  /\ ev.sel.collapsed
  /\ pointType(ev.sel.anchor) = "element"
  /\ ev.sel.offset = 0
  /\ ev.rootChildrenSize = 1
  /\ ev.topLevelEmpty
  /\ ev.lastSelection = "same"

\* C14: a click on an editable element clears the native selection and
\* marks the selection dirty exactly when the selection is non-null and
\* collapsed, its anchor is an element anchor at offset 0, the document
\* root has one child, the anchor's top-level element is empty and the
\* selection equals the last committed, non-null selection; otherwise it
\* does neither.  A click dispatches no command.
C14_ClickClearsIffAllHold ==
  [][\A e \in Editors :
       ( /\ IsEvent(obs', "click")
         /\ obs'.s = e
         /\ countListeners(e, "click") = 1
         /\ isRootEditable(e) )
       => LET tr == obs'.trace IN
          /\ Cardinality(KindAt(tr, "removeAllRanges")) =
               (IF ClickClears(e, obs'.in) THEN 1 ELSE 0)
          /\ Cardinality(KindAt(tr, "selectionDirty")) =
               (IF ClickClears(e, obs'.in) THEN 1 ELSE 0)
          /\ Commands(tr) = <<>> ]_vars

\* A click has cleared the native selection and marked the selection dirty.
C14_Witness ==
  /\ IsEvent(obs, "click")
  /\ obs.in.lastSelection = "same"
  /\ obs.in.topLevelEmpty
  /\ KindAt(obs.trace, "removeAllRanges") # {}
  /\ KindAt(obs.trace, "selectionDirty") # {}

\* ------------------------------------------------------------------ C15
\* C15 (as claimed): whatever the editor's selection is, a beforeinput of
\* type deleteCompositionText or insertCompositionText does nothing at all,
\* and a beforeinput of type deleteContentBackward on an editable element
\* clears the composition key, calls preventDefault and dispatches exactly
\* one deleteCharacter(true).
C15_FastPathsUnconditional ==
  [][\A e \in Editors :
       ( /\ IsEvent(obs', "beforeinput")
         /\ obs'.s = e
         /\ countListeners(e, "beforeinput") = 1
         /\ isRootEditable(e) )
       => LET tr == obs'.trace
              cmds == Commands(tr)
          IN /\ obs'.in.inputType \in {"deleteCompositionText", "insertCompositionText"}
                  => /\ tr = <<>>
                     /\ compositionKey' = compositionKey
                     /\ selection' = selection
             /\ obs'.in.inputType = "deleteContentBackward"
                  => /\ compositionKey'[e] = "null"
                     /\ Len(PreventDefaults(tr)) = 1
                     /\ Len(cmds) = 1
                     /\ cmds[1].name = "deleteCharacter"
                     /\ cmds[1].payload = "true" ]_vars

\* ------------------------------------------------------------------ C16
\* The reconciliation of onCompositionEndInternal as it shows in a trace:
\* one composition key reset followed by one text reconciliation.
Reconciles(tr, e) ==
  /\ Cardinality(EffectsAt(tr, "setCompositionKey", e, "null")) = 1
  /\ Cardinality(EffectsAt(tr, "updateSelectedTextFromDOM", e, "true")) = 1
  /\ \A i \in EffectsAt(tr, "setCompositionKey", e, "null"),
        j \in EffectsAt(tr, "updateSelectedTextFromDOM", e, "true") : i < j

\* C16: on Firefox the composition-end handler reconciles nothing in its
\* own turn (the composition key stays as it was, so a text-input handler
\* running next still sees the editor composing) and leaves the
\* reconciliation to a deferred callback, which does it when it runs; on
\* every other platform the reconciliation is complete when the
\* composition-end handler returns.
C16_ReconciliationDeferredOnFirefox ==
  [][ /\ \A e \in Editors :
           ( /\ IsEvent(obs', "compositionend")
             /\ obs'.s = e
             /\ countListeners(e, "compositionend") = 1
             /\ isRootEditable(e) )
           => IF IS_FIREFOX
                THEN /\ compositionKey' = compositionKey
                     /\ KindAt(obs'.trace, "setCompositionKey") = {}
                     /\ KindAt(obs'.trace, "updateSelectedTextFromDOM") = {}
                     /\ timers' = Append(timers, [ed |-> e, target |-> e])
                ELSE /\ Reconciles(obs'.trace, e)
                     /\ compositionKey'[e] = "null"
                     /\ timers' = timers
      /\ obs'.op = "timeout"
           => /\ IS_FIREFOX
              /\ timers # <<>>
              /\ obs'.in = Head(timers).ed
              /\ Reconciles(obs'.trace, obs'.in)
              /\ compositionKey'[obs'.in] = "null"
              /\ timers' = Tail(timers) ]_vars

\* On Firefox a text-input event has been handled between a composition-end
\* and its deferred reconciliation, with the editor still composing.
C16_Witness ==
  /\ IS_FIREFOX
  /\ IsEvent(obs, "input")
  /\ obs.s = "R1"
  /\ timers # <<>>
  /\ Head(timers).ed = "R1"
  /\ compositionKey["R1"] # "null"

\* ------------------------------------------------------------------ C17
\* C17: a key-down handled while the editor composes dispatches no
\* command, calls no preventDefault and leaves the composition key as it
\* was; every handled key-down, composing or not, sets the soft-key flag
\* to (key is "Unidentified" and key code is 229).
C17_ComposingKeyDownOnlySetsFlag ==
  [][\A e \in Editors :
       ( /\ IsEvent(obs', "keydown")
         /\ obs'.s = e
         /\ countListeners(e, "keydown") = 1
         /\ isRootEditable(e) )
       => /\ lastKeyWasMaybeAndroidSoftKey' =
               (obs'.in.key = "Unidentified" /\ obs'.in.keyCode = 229)
          /\ compositionKey[e] # "null"
               => /\ Commands(obs'.trace) = <<>>
                  /\ PreventDefaults(obs'.trace) = <<>>
                  /\ compositionKey' = compositionKey ]_vars

\* The soft keyboard's placeholder key has been handled while the editor
\* composes: the flag is set and nothing was dispatched.
C17_Witness ==
  /\ IsEvent(obs, "keydown")
  /\ obs.s = "R1"
  /\ obs.in.key = "Unidentified"
  /\ obs.in.keyCode = 229
  /\ compositionKey["R1"] # "null"
  /\ lastKeyWasMaybeAndroidSoftKey
  /\ Commands(obs.trace) = <<>>

\* ------------------------------------------------------------------ C18
\* The nearest node from the anchor node up that is editable and whose
\* editor reference names an editor, or "null".
RECURSIVE ownedEditableAncestor(_)
ownedEditableAncestor(node) ==
  IF node = "null" THEN "null"
  ELSE IF contentEditable[node] = "true" /\ lexicalEditor[node] \in Editors
    THEN node
  ELSE ownedEditableAncestor(parentNode(node))

\* C18 (as claimed): a selection change whose anchor node has no ancestor
\* that is both editable and tagged with an editor, an editable element
\* whose reference removeRootElementEvents has cleared included, does
\* nothing: no editor is updated, the active-nested-editor map and the
\* selections stay as they were, and no error is raised.
C18_UnownedSelectionChangeIsNoOp ==
  [][ ( /\ obs'.op = "selectionchange"
        /\ ownedEditableAncestor(obs'.s) = "null" )
      => /\ obs'.trace = <<>>
         /\ activeNestedEditorsMap' = activeNestedEditorsMap
         /\ selection' = selection
         /\ ~obs'.threw ]_vars

\* ------------------------------------------------------------------ C19
\* C19 (as claimed): the activation update of the newly active editor with
\* a non-null selection, collapsed or not, recomputes the selection's
\* format from the anchor: the anchor node's format for a text anchor, zero
\* for an element anchor.
C19_FormatRecomputedForEverySelection ==
  [][ ( /\ obs'.op = "selectionchange"
        /\ ~obs'.threw
        /\ findEditorElement(obs'.s) # "null"
        /\ ~obs'.in.null )
      => LET N == lexicalEditor[findEditorElement(obs'.s)]
             tr == obs'.trace
             fmt == IF pointType(obs'.in.anchor) = "text"
                      THEN "anchorNode.getFormat()" ELSE "0"
         IN /\ Cardinality(EffectsAt(tr, "setFormat", N, fmt)) = 1
            /\ Cardinality(KindAt(tr, "setFormat")) = 1
            /\ \A i \in KindAt(tr, "setFormat"),
                  j \in EffectsAt(tr, "execCommand", N, "selectionChange") : i < j ]_vars

\* ------------------------------------------------------------------ C20
\* C20 (as claimed): on Firefox, when a composition-start is handled
\* (editable element, non-null selection) after a composition-end whose
\* deferred reconciliation is still pending, the editor is composing once
\* that reconciliation has run.
C20_StartSurvivesDeferredEnd ==
  [][\A e \in Editors :
       ( /\ IS_FIREFOX
         /\ IsEvent(obs, "compositionstart")
         /\ obs.s = e
         /\ Updates(obs.trace) # <<>>
         /\ selection[e] # "null"
         /\ timers # <<>>
         /\ Head(timers).ed = e
         /\ obs'.op = "timeout" )
       => compositionKey'[e] # "null" ]_vars

\* ------------------------------------------------------------------ C21
\* C21 (as claimed): a key-down translation that dispatches a command whose
\* payload is not the raw event calls preventDefault once, before the
\* command; a translation that passes the raw event as the payload does
\* not call preventDefault.
C21_PreventDefaultIffOwnPayload ==
  [][\A e \in Editors :
       ( /\ IsEvent(obs', "keydown")
         /\ obs'.s = e
         /\ countListeners(e, "keydown") = 1
         /\ isRootEditable(e) )
       => LET tr == obs'.trace IN
          \A i \in KindAt(tr, "execCommand") :
            IF tr[i].payload = "event"
              THEN KindAt(tr, "preventDefault") = {}
              ELSE /\ Cardinality(KindAt(tr, "preventDefault")) = 1
                   /\ \A j \in KindAt(tr, "preventDefault") : j < i ]_vars

====
